---- MODULE Spec2Model ----
(***************************************************************************)
(* A model of generate_idot.py, the I.DOT pipetting scheme generator:      *)
(* the well helpers, the reaction builders, the dispense planner           *)
(* (build_dispense_rows) and the run of main.                              *)
(*                                                                         *)
(* Strings that the program takes apart (well identifiers) are sequences   *)
(* of one-character strings: <<"A", "1", "0">> is the well "A10".          *)
(* Reagent names are only compared and sorted, and are TLA+ strings.       *)
(* Volumes are integers counting ticks of 0.00002 uL, so that a float the  *)
(* program rounds to 4 decimals (0.0001 uL = 5 ticks) never lies on a tie. *)
(***************************************************************************)
EXTENDS Integers, Sequences, FiniteSets, TLC

VARIABLES
    pc,               \* position of the run
    count,            \* argument of generate_target_wells
    wells,            \* value returned by generate_target_wells
    common_parts,     \* read_combinatorial: the "common" column
    groups,           \* read_combinatorial: the part groups
    sheet,            \* the cells of the manual sheet that is read
    manual_rows,      \* value returned by read_manual_rows / read_manual_columns
    reactions,        \* [(target_well, [part_names]), ...]
    reagent_to_wells, \* reagent name -> list of source wells
    total_vol,        \* Total Reaction Volume (ticks)
    dispense_vol,     \* Part Dispense Volume (ticks)
    mm_well,          \* Mastermix Source Well
    mm_name,          \* Mastermix Name
    well_usage,       \* build_dispense_rows: dict well -> times picked
    rows,             \* build_dispense_rows: the local list of records
    ri,               \* build_dispense_rows: index of the reaction in the loop
    pj,               \* build_dispense_rows: index of the part in the inner loop
    dispense_rows,    \* what the caller of build_dispense_rows received
    err,              \* the exception raised / the exit message
    sheetnames,       \* wb.sheetnames
    mode,             \* settings["Mode"], stripped and lowered
    idot_written,     \* the dispenser CSV exists on disk
    summary_written,  \* the summary CSV exists on disk
    outcome           \* "running", "completed", "exit_error", "traceback"

vars == <<pc, count, wells, common_parts, groups, sheet, manual_rows, reactions,
          reagent_to_wells, total_vol, dispense_vol, mm_well, mm_name,
          well_usage, rows, ri, pj, dispense_rows, err, sheetnames, mode,
          idot_written, summary_written, outcome>>

-----------------------------------------------------------------------------
(* Bounds of the model *)

MaxCount == 98
MaxGroups == 3
MaxGroupLen == 3
MaxReactions == 3
MaxManualRows == 3

-----------------------------------------------------------------------------
(* Characters and the conversions between integers and decimal text *)

Digits == <<"0", "1", "2", "3", "4", "5", "6", "7", "8", "9">>

IndexOf(seq, x) ==
    IF \E i \in 1..Len(seq) : seq[i] = x
    THEN CHOOSE i \in 1..Len(seq) : seq[i] = x /\ \A j \in 1..(i - 1) : seq[j] # x
    ELSE 0

IsDigit(ch) == IndexOf(Digits, ch) # 0

\* str(n) inside an f-string, for n >= 0
RECURSIVE IntToStr(_)
IntToStr(n) ==
    IF n < 10 THEN <<Digits[n + 1]>>
    ELSE IntToStr(n \div 10) \o <<Digits[(n % 10) + 1]>>

RECURSIVE DigitsValue(_)
DigitsValue(s) ==
    IF s = <<>> THEN 0
    ELSE 10 * DigitsValue(SubSeq(s, 1, Len(s) - 1)) + (IndexOf(Digits, s[Len(s)]) - 1)

\* int(text): a value for a non-empty run of digits, ValueError otherwise
ParseInt(s) ==
    IF s # <<>> /\ \A i \in 1..Len(s) : IsDigit(s[i])
    THEN [ok |-> TRUE, val |-> DigitsValue(s)]
    ELSE [ok |-> FALSE, val |-> 0]

LowerCase == <<"a", "b", "c", "d", "e", "f", "g", "h", "x", "z">>
UpperCase == <<"A", "B", "C", "D", "E", "F", "G", "H", "X", "Z">>

\* str.upper() on one character and on a text
UpperChar(ch) == IF IndexOf(LowerCase, ch) # 0 THEN UpperCase[IndexOf(LowerCase, ch)] ELSE ch
Upper(s) == [i \in 1..Len(s) |-> UpperChar(s[i])]

\* str.strip(): drops the blanks at both ends
RECURSIVE LStrip(_)
LStrip(s) == IF s # <<>> /\ Head(s) = " " THEN LStrip(Tail(s)) ELSE s
RECURSIVE RStrip(_)
RStrip(s) == IF s # <<>> /\ s[Len(s)] = " " THEN RStrip(SubSeq(s, 1, Len(s) - 1)) ELSE s
Strip(s) == RStrip(LStrip(s))

-----------------------------------------------------------------------------
(* Well helpers *)

ROWS_96 == <<"A", "B", "C", "D", "E", "F", "G", "H">>
COLS_96 == [i \in 1..12 |-> i]

NoKey == <<0, 0>>

\* well_sort_key: (col, row index), or the exception it raises
well_sort_key(well) ==
    IF well = <<>> THEN [raised |-> "IndexError", key |-> NoKey]
    ELSE LET row == UpperChar(well[1])
             col == ParseInt(Tail(well))
         IN  IF ~col.ok THEN [raised |-> "ValueError", key |-> NoKey]
             ELSE IF IndexOf(ROWS_96, row) = 0 THEN [raised |-> "ValueError", key |-> NoKey]
             ELSE [raised |-> "none", key |-> <<col.val, IndexOf(ROWS_96, row) - 1>>]

\* f"{r}{c}"
WellName(r, c) == <<r>> \o IntToStr(c)

\* [f"{r}{c}" for r in ROWS_96], rows from index i on
RECURSIVE ColumnWells(_, _)
ColumnWells(c, i) ==
    IF i > Len(ROWS_96) THEN <<>>
    ELSE <<WellName(ROWS_96[i], c)>> \o ColumnWells(c, i + 1)

\* [f"{r}{c}" for c in COLS_96 for r in ROWS_96], columns from index k on
RECURSIVE AllWellsFrom(_)
AllWellsFrom(k) ==
    IF k > Len(COLS_96) THEN <<>>
    ELSE ColumnWells(COLS_96[k], 1) \o AllWellsFrom(k + 1)

AllWells == AllWellsFrom(1)

Take(seq, n) == SubSeq(seq, 1, n)

\* the capacity test written with >= : a full plate is refused
generate_target_wells_OffByOne(n) ==
    IF n >= Len(AllWells)
    THEN [raised |-> TRUE, wells |-> <<>>]
    ELSE [raised |-> FALSE, wells |-> Take(AllWells, n)]

generate_target_wells(n) ==
    IF n > Len(AllWells)
    THEN [raised |-> TRUE, wells |-> <<>>]
    ELSE [raised |-> FALSE, wells |-> Take(AllWells, n)]

-----------------------------------------------------------------------------
(* Errors *)

NoError == [kind |-> "none", target |-> <<>>, n_parts |-> 0, dispense_vol |-> 0,
            total_vol |-> 0, missing |-> <<>>, count |-> 0]

CapacityError(n) == [NoError EXCEPT !.kind = "capacity", !.count = n]

-----------------------------------------------------------------------------
(* Values of the variables a specification does not use *)

BlankWells == count = 0 /\ wells = <<>>
BlankCombinatorial == common_parts = <<>> /\ groups = <<>>
BlankManual == sheet = <<>> /\ manual_rows = <<>>
BlankSettings ==
    /\ reagent_to_wells = <<>>
    /\ total_vol = 0
    /\ dispense_vol = 0
    /\ mm_well = <<>>
    /\ mm_name = ""
BlankPlan ==
    /\ well_usage = <<>>
    /\ rows = <<>>
    /\ ri = 0
    /\ pj = 0
    /\ dispense_rows = <<>>
BlankRun ==
    /\ sheetnames = {}
    /\ mode = ""
    /\ idot_written = FALSE
    /\ summary_written = FALSE
    /\ outcome = "running"

SeqsUpTo(S, lo, hi) == UNION {[1..n -> S] : n \in lo..hi}

-----------------------------------------------------------------------------
(* generate_target_wells called with a count *)

InitWells ==
    /\ pc = "call_generate_target_wells"
    /\ count \in 0..MaxCount
    /\ wells = <<>>
    /\ reactions = <<>>
    /\ err = NoError
    /\ BlankCombinatorial /\ BlankManual /\ BlankSettings /\ BlankPlan /\ BlankRun

CallGenerateTargetWells ==
    /\ pc = "call_generate_target_wells"
    /\ LET r == generate_target_wells(count)
       IN  /\ wells' = r.wells
           /\ err' = IF r.raised THEN CapacityError(count) ELSE NoError
           /\ pc' = IF r.raised THEN "raised" ELSE "returned"
    /\ UNCHANGED <<count, common_parts, groups, sheet, manual_rows, reactions,
                   reagent_to_wells, total_vol, dispense_vol, mm_well, mm_name,
                   well_usage, rows, ri, pj, dispense_rows, sheetnames, mode,
                   idot_written, summary_written, outcome>>

NextWells == CallGenerateTargetWells

SpecWells == InitWells /\ [][NextWells]_vars

-----------------------------------------------------------------------------
(* Reaction builders *)

\* [x + [y] for y in pool], elements of pool from index i on
RECURSIVE ExtendOne(_, _, _)
ExtendOne(x, pool, i) ==
    IF i > Len(pool) THEN <<>>
    ELSE <<Append(x, pool[i])>> \o ExtendOne(x, pool, i + 1)

\* [x + [y] for x in result for y in pool], elements of result from index k on
RECURSIVE ExtendAll(_, _, _)
ExtendAll(result, pool, k) ==
    IF k > Len(result) THEN <<>>
    ELSE ExtendOne(result[k], pool, 1) \o ExtendAll(result, pool, k + 1)

\* itertools.product(*pools): result = [[]]; for pool in pools: result = [...]
RECURSIVE ProductFrom(_, _)
ProductFrom(result, pools) ==
    IF pools = <<>> THEN result
    ELSE ProductFrom(ExtendAll(result, Head(pools), 1), Tail(pools))

cartesian_product(pools) == ProductFrom(<< <<>> >>, pools)

Reaction(target, parts) == [target |-> target, parts |-> parts]

\* the common parts put before the combination instead of after it
ZipReactions_CommonFirst(targets, combos, common) ==
    [i \in 1..(IF Len(targets) < Len(combos) THEN Len(targets) ELSE Len(combos)) |->
        Reaction(targets[i], common \o combos[i])]

\* zip(targets, combos) with the common parts appended to every combination
ZipReactions(targets, combos, common) ==
    [i \in 1..(IF Len(targets) < Len(combos) THEN Len(targets) ELSE Len(combos)) |->
        Reaction(targets[i], combos[i] \o common)]

build_combinatorial_reactions(common, gs) ==
    IF gs = <<>>
    THEN [err |-> [NoError EXCEPT !.kind = "no_groups"], reactions |-> <<>>]
    ELSE LET combos == cartesian_product(gs)
             targets == generate_target_wells(Len(combos))
         IN  IF targets.raised
             THEN [err |-> CapacityError(Len(combos)), reactions |-> <<>>]
             ELSE [err |-> NoError,
                   reactions |-> ZipReactions(targets.wells, combos, common)]

-----------------------------------------------------------------------------
(* build_combinatorial_reactions called with the content of a sheet *)

GroupNames == {"a", "b"}

\* a group of n parts: a, b, a, ...
Alternating(n) == [i \in 1..n |-> IF i % 2 = 1 THEN "a" ELSE "b"]

\* what read_combinatorial can return: no group is empty, the list may be.
\* Every group of one or two parts, the longer alternating groups, and x, y.
GroupChoices ==
    SeqsUpTo(GroupNames, 1, 2)
        \cup {Alternating(n) : n \in 3..MaxGroupLen}
        \cup {<<"x", "y">>}
GroupLists == SeqsUpTo(GroupChoices, 0, MaxGroups)
CommonChoices == {<<>>, <<"c">>, <<"c", "a">>}

InitCombinatorial ==
    /\ pc = "call_build_combinatorial"
    /\ common_parts \in CommonChoices
    /\ groups \in GroupLists
    /\ reactions = <<>>
    /\ err = NoError
    /\ BlankWells /\ BlankManual /\ BlankSettings /\ BlankPlan /\ BlankRun

CallBuildCombinatorial ==
    /\ pc = "call_build_combinatorial"
    /\ LET r == build_combinatorial_reactions(common_parts, groups)
       IN  /\ reactions' = r.reactions
           /\ err' = r.err
           /\ pc' = IF r.err.kind = "none" THEN "returned" ELSE "raised"
    /\ UNCHANGED <<count, wells, common_parts, groups, sheet, manual_rows,
                   reagent_to_wells, total_vol, dispense_vol, mm_well, mm_name,
                   well_usage, rows, ri, pj, dispense_rows, sheetnames, mode,
                   idot_written, summary_written, outcome>>

NextCombinatorial == CallBuildCombinatorial

SpecCombinatorial == InitCombinatorial /\ [][NextCombinatorial]_vars

-----------------------------------------------------------------------------
(* Claims about the well helpers and the reaction builders *)

\* C1: for 0 <= count <= 96 generate_target_wells returns exactly count wells,
\* pairwise distinct, the i-th being row (i-1) mod 8 of column (i-1) div 8 + 1
\* (column-major fill order A1, B1, ..., H1, A2, ..., H12); for count > 96 it
\* fails with the capacity error and returns no wells.
C1_TargetWells ==
    (pc # "call_generate_target_wells") =>
        IF count <= 96
        THEN /\ pc = "returned"
             /\ err = NoError
             /\ Len(wells) = count
             /\ \A i, j \in 1..Len(wells) : i # j => wells[i] # wells[j]
             /\ \A i \in 1..Len(wells) :
                    /\ wells[i][1] = ROWS_96[((i - 1) % 8) + 1]
                    /\ well_sort_key(wells[i]) =
                           [raised |-> "none", key |-> <<((i - 1) \div 8) + 1, (i - 1) % 8>>]
        ELSE /\ pc = "raised"
             /\ err.kind = "capacity"
             /\ wells = <<>>

C1_Witness ==
    /\ pc = "returned"
    /\ count = 96
    /\ wells[9] = <<"A", "2">>
    /\ wells[96] = <<"H", "1", "2">>

\* the number of combinations the groups after group g span
RECURSIVE Stride(_, _)
Stride(gs, g) == IF g >= Len(gs) THEN 1 ELSE Len(gs[g + 1]) * Stride(gs, g + 1)

\* C2: for a non-empty list of non-empty groups with at most 96 combinations,
\* build_combinatorial_reactions returns one reaction per element of the
\* Cartesian product in lexicographic order (first group slowest, last group
\* fastest); reaction i holds combination i's parts in group order followed by
\* the common parts, and its target is the i-th well of the column-major fill
\* order, so all targets are distinct.
C2_Combinatorial ==
    (pc # "call_build_combinatorial" /\ groups # <<>>) =>
        LET stride == [g \in 1..Len(groups) |-> Stride(groups, g)]
            n == Len(groups[1]) * stride[1]
        IN  (n <= 96) =>
            /\ pc = "returned"
            /\ Len(reactions) = n
            /\ \A i \in 1..Len(reactions) :
                /\ Len(reactions[i].parts) = Len(groups) + Len(common_parts)
                /\ \A g \in 1..Len(groups) :
                       reactions[i].parts[g] =
                           groups[g][(((i - 1) \div stride[g]) % Len(groups[g])) + 1]
                /\ \A k \in 1..Len(common_parts) :
                       reactions[i].parts[Len(groups) + k] = common_parts[k]
                /\ reactions[i].target[1] = ROWS_96[((i - 1) % 8) + 1]
                /\ well_sort_key(reactions[i].target) =
                       [raised |-> "none", key |-> <<((i - 1) \div 8) + 1, (i - 1) % 8>>]
            /\ Cardinality({reactions[i].target : i \in 1..Len(reactions)}) = Len(reactions)

\* groups [[a,b],[x,y]] with common [c]: A1:[a,x,c] B1:[a,y,c] C1:[b,x,c] D1:[b,y,c]
C2_Witness ==
    /\ pc = "returned"
    /\ groups = << <<"a", "b">>, <<"x", "y">> >>
    /\ common_parts = <<"c">>
    /\ reactions = << Reaction(<<"A", "1">>, <<"a", "x", "c">>),
                      Reaction(<<"B", "1">>, <<"a", "y", "c">>),
                      Reaction(<<"C", "1">>, <<"b", "x", "c">>),
                      Reaction(<<"D", "1">>, <<"b", "y", "c">>) >>
-----------------------------------------------------------------------------
(* Dispensing logic: build_dispense_rows *)

Range(seq) == {seq[i] : i \in 1..Len(seq)}

\* Python's order of the one-letter reagent names (by code point)
Alphabet == <<"A", "B", "C", "D", "E", "F", "G", "H", "I", "J", "K", "L", "M",
              "N", "O", "P", "Q", "R", "S", "T", "U", "V", "W", "X", "Y", "Z">>

NameLess(a, b) == IndexOf(Alphabet, a) < IndexOf(Alphabet, b)

\* sorted(names)
RECURSIVE Sorted(_)
Sorted(S) ==
    IF S = {} THEN <<>>
    ELSE LET m == CHOOSE x \in S : \A y \in S \ {x} : NameLess(x, y)
         IN  <<m>> \o Sorted(S \ {m})

\* all_parts: the union of the part lists of the reactions
AllParts(rs) == UNION {Range(rs[i].parts) : i \in 1..Len(rs)}

\* missing = all_parts - set(reagent_to_wells.keys())
Missing(rs, r2w) == AllParts(rs) \ DOMAIN r2w

\* only the first missing part reported
MissingError_First(rs, r2w) ==
    [NoError EXCEPT !.kind = "missing_parts",
                    !.missing = Take(Sorted(Missing(rs, r2w)), 1)]

MissingError(rs, r2w) ==
    [NoError EXCEPT !.kind = "missing_parts", !.missing = Sorted(Missing(rs, r2w))]

\* well_usage.get(w, 0)
Usage(usage, w) == IF w \in DOMAIN usage THEN usage[w] ELSE 0

\* min(wells, key=...): the first element whose key is smaller than that of
\* every element before it and not greater than that of any element after it
RECURSIVE MinFrom(_, _, _, _)
MinFrom(ws, usage, best, i) ==
    IF i > Len(ws) THEN best
    ELSE IF Usage(usage, ws[i]) < Usage(usage, best)
         THEN MinFrom(ws, usage, ws[i], i + 1)
         ELSE MinFrom(ws, usage, best, i + 1)

\* ties broken towards the well declared last
RECURSIVE MinFromLast(_, _, _, _)
MinFromLast(ws, usage, best, i) ==
    IF i > Len(ws) THEN best
    ELSE IF Usage(usage, ws[i]) <= Usage(usage, best)
         THEN MinFromLast(ws, usage, ws[i], i + 1)
         ELSE MinFromLast(ws, usage, best, i + 1)

pick_source_well_LastWins(r2w, usage, reagent) ==
    LET ws == r2w[reagent]
    IN  MinFromLast(ws, usage, ws[1], 2)

\* no balancing: always the first declared well
pick_source_well_First(r2w, usage, reagent) == r2w[reagent][1]

pick_source_well(r2w, usage, reagent) ==
    LET ws == r2w[reagent]
    IN  MinFrom(ws, usage, ws[1], 2)

\* well_usage[best] = well_usage.get(best, 0) + 1
Bump(usage, best) ==
    [w \in DOMAIN usage \cup {best} |->
        IF w = best THEN Usage(usage, best) + 1 ELSE usage[w]]

TicksPerUnit == 5

\* round(x, 4) of a volume in ticks: the nearest multiple of 0.0001 uL
Round4(x) ==
    IF x % TicksPerUnit <= TicksPerUnit \div 2
    THEN TicksPerUnit * (x \div TicksPerUnit)
    ELSE TicksPerUnit * ((x \div TicksPerUnit) + 1)

\* mm_vol = round(total_vol - n_parts * dispense_vol, 4)
MmVol(total, dispense, n_parts) == Round4(total - n_parts * dispense)

\* an exact fit refused as well
VolumeExceeded_OrEqual(mm_vol) == mm_vol <= 0

\* a mastermix record emitted for a volume of zero too
EmitsFiller_OrZero(mm_vol) == mm_vol >= 0

\* if mm_vol < 0: raise
VolumeExceeded(mm_vol) == mm_vol < 0

\* if mm_vol > 0: rows.append(mastermix record)
EmitsFiller(mm_vol) == mm_vol > 0

VolumeError(target, n_parts, dispense, total) ==
    [NoError EXCEPT !.kind = "volume_exceeded", !.target = target,
                    !.n_parts = n_parts, !.dispense_vol = dispense, !.total_vol = total]

Record(src, target, vol, name) == [src |-> src, target |-> target, vol |-> vol, name |-> name]

\* lines 185-196: the check of the parts against the source plate
PlanPreflight ==
    /\ pc = "plan_preflight"
    /\ IF Missing(reactions, reagent_to_wells) # {}
       THEN /\ err' = MissingError(reactions, reagent_to_wells)
            /\ pc' = "raised"
            /\ UNCHANGED <<well_usage, rows, ri, pj>>
       ELSE /\ well_usage' = <<>>
            /\ rows' = <<>>
            /\ ri' = 1
            /\ pj' = 0
            /\ pc' = "plan_reaction"
            /\ err' = err
    /\ UNCHANGED <<count, wells, common_parts, groups, sheet, manual_rows, reactions,
                   reagent_to_wells, total_vol, dispense_vol, mm_well, mm_name,
                   dispense_rows, sheetnames, mode, idot_written, summary_written,
                   outcome>>

\* lines 205-212: the head of the loop over the reactions
PlanReaction ==
    /\ pc = "plan_reaction"
    /\ ri <= Len(reactions)
    /\ LET n_parts == Len(reactions[ri].parts)
       IN  IF VolumeExceeded(MmVol(total_vol, dispense_vol, n_parts))
           THEN /\ err' = VolumeError(reactions[ri].target, n_parts, dispense_vol, total_vol)
                /\ pc' = "raised"
                /\ pj' = pj
           ELSE /\ pj' = 1
                /\ pc' = "plan_parts"
                /\ err' = err
    /\ UNCHANGED <<count, wells, common_parts, groups, sheet, manual_rows, reactions,
                   reagent_to_wells, total_vol, dispense_vol, mm_well, mm_name,
                   well_usage, rows, ri, dispense_rows, sheetnames, mode,
                   idot_written, summary_written, outcome>>

\* lines 214-216: one part of the reaction
PlanPick ==
    /\ pc = "plan_parts"
    /\ pj <= Len(reactions[ri].parts)
    /\ LET part == reactions[ri].parts[pj]
           src == pick_source_well(reagent_to_wells, well_usage, part)
       IN  /\ well_usage' = Bump(well_usage, src)
           /\ rows' = Append(rows, Record(src, reactions[ri].target, dispense_vol, part))
    /\ pj' = pj + 1
    /\ UNCHANGED <<pc, count, wells, common_parts, groups, sheet, manual_rows, reactions,
                   reagent_to_wells, total_vol, dispense_vol, mm_well, mm_name,
                   ri, dispense_rows, err, sheetnames, mode, idot_written,
                   summary_written, outcome>>

\* lines 218-219: the mastermix of the reaction, then the next reaction
PlanFiller ==
    /\ pc = "plan_parts"
    /\ pj > Len(reactions[ri].parts)
    /\ LET mm_vol == MmVol(total_vol, dispense_vol, Len(reactions[ri].parts))
       IN  rows' = IF EmitsFiller(mm_vol)
                   THEN Append(rows, Record(mm_well, reactions[ri].target, mm_vol, mm_name))
                   ELSE rows
    /\ ri' = ri + 1
    /\ pj' = 0
    /\ pc' = "plan_reaction"
    /\ UNCHANGED <<count, wells, common_parts, groups, sheet, manual_rows, reactions,
                   reagent_to_wells, total_vol, dispense_vol, mm_well, mm_name,
                   well_usage, dispense_rows, err, sheetnames, mode, idot_written,
                   summary_written, outcome>>

\* line 221: return rows
PlanReturn ==
    /\ pc = "plan_reaction"
    /\ ri > Len(reactions)
    /\ dispense_rows' = rows
    /\ pc' = "plan_returned"
    /\ UNCHANGED <<count, wells, common_parts, groups, sheet, manual_rows, reactions,
                   reagent_to_wells, total_vol, dispense_vol, mm_well, mm_name,
                   well_usage, rows, ri, pj, err, sheetnames, mode, idot_written,
                   summary_written, outcome>>

-----------------------------------------------------------------------------
(* build_dispense_rows called with reactions, a source plate and volumes *)

A1 == <<"A", "1">>
A2 == <<"A", "2">>
A3 == <<"A", "3">>
B1 == <<"B", "1">>
B2 == <<"B", "2">>

PlanNames == {"R", "S"}

\* every part list of one or two parts
PartLists == SeqsUpTo(PlanNames, 1, 2)

\* the targets of n reactions: as build_combinatorial_reactions assigns them,
\* or from a manual sheet that names one well in every row
TargetLists(n) == {Take(AllWells, n), [i \in 1..n |-> B1]}

ReactionLists ==
    UNION {{[i \in 1..n |-> Reaction(ts[i], ps[i])] :
                ts \in TargetLists(n), ps \in [1..n -> PartLists]} : n \in 1..MaxReactions}

\* what read_source_plate can return: every reagent it names has a well
ReagentMaps ==
    { ("R" :> <<A1, A2>>) @@ ("S" :> <<B1>>),
      ("R" :> <<A1, A2, A3>>) @@ ("S" :> <<B1, B2>>),
      ("R" :> <<A1, A2>>) @@ ("S" :> <<A2, B1>>),
      ("R" :> <<A1, A1, A2>>) @@ ("S" :> <<B1>>),
      ("R" :> <<A1>>),
      ("S" :> <<B2, B1>>),
      <<>> }

\* (total_vol, dispense_vol) in ticks: (1.0, 0.5), (0.5, 0.5), (0.5, 0.50002) uL
VolumeSettings == {<<50000, 25000>>, <<25000, 25000>>, <<25000, 25001>>}

InitPlan ==
    /\ pc = "plan_preflight"
    /\ reactions \in ReactionLists
    /\ reagent_to_wells \in ReagentMaps
    /\ \E v \in VolumeSettings : total_vol = v[1] /\ dispense_vol = v[2]
    /\ mm_well = A1
    /\ mm_name = "Mastermix"
    /\ err = NoError
    /\ BlankWells /\ BlankCombinatorial /\ BlankManual /\ BlankPlan /\ BlankRun

NextPlan == PlanPreflight \/ PlanReaction \/ PlanPick \/ PlanFiller \/ PlanReturn

SpecPlan == InitPlan /\ [][NextPlan]_vars
-----------------------------------------------------------------------------
(* Claims about build_dispense_rows *)

SourceWells == UNION {Range(reagent_to_wells[r]) : r \in DOMAIN reagent_to_wells}

IsPick == pc = "plan_parts" /\ pj' = pj + 1

PickIsLeastUsedFirst ==
    LET part == reactions[ri].parts[pj]
        ws == reagent_to_wells[part]
        src == rows'[Len(rows')].src
    IN  /\ Len(rows') = Len(rows) + 1
        /\ \E k \in 1..Len(ws) :
               /\ ws[k] = src
               /\ \A j \in 1..Len(ws) : Usage(well_usage, ws[j]) >= Usage(well_usage, src)
               /\ \A j \in 1..(k - 1) : Usage(well_usage, ws[j]) > Usage(well_usage, src)
        /\ Usage(well_usage', src) = Usage(well_usage, src) + 1
        /\ \A w \in (SourceWells \cup DOMAIN well_usage \cup DOMAIN well_usage') \ {src} :
               Usage(well_usage', w) = Usage(well_usage, w)

ThreeReactionsOfR ==
    /\ "R" \in DOMAIN reagent_to_wells
    /\ reagent_to_wells["R"] = <<A1, A2>>
    /\ Len(reactions) = 3
    /\ \A i \in 1..3 : reactions[i].parts = <<"R">>

SourcesOf(rs, name) == SelectSeq(rs, LAMBDA rec : rec.name = name)

\* C3: every pick selects a declared source well of the reagent whose usage
\* count is minimal among the reagent's wells, the earliest declared among
\* those, raises that well's count by exactly 1 and changes no other count;
\* so R at [A1, A2] used once in each of three reactions is drawn from A1,
\* A2, A1, and a single-well reagent always draws from its one well.
C3_LeastUsedFirst ==
    /\ [][IsPick => PickIsLeastUsedFirst]_vars
    /\ []((ThreeReactionsOfR /\ pc = "plan_returned") =>
              [i \in 1..3 |-> SourcesOf(dispense_rows, "R")[i].src] = <<A1, A2, A1>>)
    /\ [](\A k \in 1..Len(rows) :
              (rows[k].name \in DOMAIN reagent_to_wells
                   /\ Len(reagent_to_wells[rows[k].name]) = 1)
                  => rows[k].src = reagent_to_wells[rows[k].name][1])

C3_Witness ==
    /\ ThreeReactionsOfR
    /\ pc = "plan_returned"
    /\ Usage(well_usage, A1) = 2
    /\ Usage(well_usage, A2) = 1

NParts(i) == Len(reactions[i].parts)

FillerOf(i) == total_vol - NParts(i) * dispense_vol

BlockLen(i) == NParts(i) + (IF FillerOf(i) > 0 THEN 1 ELSE 0)

RECURSIVE Offset(_)
Offset(i) == IF i <= 1 THEN 0 ELSE Offset(i - 1) + BlockLen(i - 1)

VolumesOnGrid == total_vol % TicksPerUnit = 0 /\ dispense_vol % TicksPerUnit = 0

\* C4: with V and d multiples of 0.0001 uL, the records of a successful
\* build_dispense_rows are one block per reaction in input order; a block is
\* one record (selected source, target, d, part) per part in part order,
\* followed by exactly one record (fillerWell, target, V - n*d, fillerName)
\* when V - n*d > 0 and by none when n*d = V.
C4_Shape ==
    (pc = "plan_returned" /\ VolumesOnGrid) =>
        /\ Len(dispense_rows) = Offset(Len(reactions) + 1)
        /\ \A i \in 1..Len(reactions) :
            /\ \A j \in 1..NParts(i) :
                LET rec == dispense_rows[Offset(i) + j]
                IN  /\ rec.target = reactions[i].target
                    /\ rec.vol = dispense_vol
                    /\ rec.name = reactions[i].parts[j]
                    /\ rec.src \in Range(reagent_to_wells[reactions[i].parts[j]])
            /\ FillerOf(i) >= 0
            /\ FillerOf(i) > 0 =>
                   dispense_rows[Offset(i) + NParts(i) + 1] =
                       Record(mm_well, reactions[i].target, FillerOf(i), mm_name)

\* a reaction with a filler record followed by one whose parts consume V
C4_Witness ==
    /\ pc = "plan_returned"
    /\ VolumesOnGrid
    /\ Len(reactions) >= 2
    /\ FillerOf(1) > 0
    /\ FillerOf(2) = 0
    /\ Len(dispense_rows) = 4 + (IF Len(reactions) = 3 THEN BlockLen(3) ELSE 0)
    /\ dispense_rows[2].name = mm_name
    /\ dispense_rows[4].name # mm_name

PlanEnded == pc \in {"plan_returned", "raised"}

AllDeclared ==
    \A i \in 1..Len(reactions) : \A j \in 1..NParts(i) :
        reactions[i].parts[j] \in DOMAIN reagent_to_wells

FailsOnFirst(Over(_)) ==
    IF \E i \in 1..Len(reactions) : Over(i)
    THEN LET first == CHOOSE i \in 1..Len(reactions) :
                          Over(i) /\ \A k \in 1..(i - 1) : ~Over(k)
         IN  /\ pc = "raised"
             /\ err = VolumeError(reactions[first].target, NParts(first),
                                  dispense_vol, total_vol)
             /\ dispense_rows = <<>>
    ELSE pc = "plan_returned"

PartsExceed(i) == NParts(i) * dispense_vol > total_vol

\* the parts exceed V by more than half of 0.0001 uL: round(V - n*d, 4) < 0
RoundedExceed(i) == 2 * (NParts(i) * dispense_vol - total_vol) > TicksPerUnit

\* C5 as stated: with every part declared, if some reaction has
\* partsCount * d > V the call fails with the volume-exceeded error of the first
\* such reaction and the caller receives no record.
C5_Original ==
    (PlanEnded /\ AllDeclared /\ \E i \in 1..Len(reactions) : PartsExceed(i)) =>
        FailsOnFirst(PartsExceed)

\* C5 amended: with every part declared, the call fails with the
\* volume-exceeded error of the first reaction in input order whose rounded
\* filler volume round(V - partsCount * d, 4) is negative, and the caller then
\* receives no record at all; when no reaction has a negative rounded filler
\* volume the call returns.
C5_VolumeBudget == (PlanEnded /\ AllDeclared) => FailsOnFirst(RoundedExceed)

\* a valid reaction was planned before the offending one
C5_Witness ==
    /\ pc = "raised"
    /\ err.kind = "volume_exceeded"
    /\ Len(reactions) >= 2
    /\ ~PartsExceed(1)
    /\ err.target = reactions[2].target
    /\ reactions[1].target # reactions[2].target
    /\ rows # <<>>
    /\ dispense_rows = <<>>

MissingSet ==
    {p \in PlanNames :
        /\ \E i \in 1..Len(reactions) : \E j \in 1..NParts(i) : reactions[i].parts[j] = p
        /\ p \notin DOMAIN reagent_to_wells}

\* C6: if a part of any reaction is no key of the reagent map, the call fails
\* with the missing-reagent error that reports exactly the undeclared parts of
\* all reactions, each once and in sorted order, before any source well is
\* picked, any usage count changed, any record emitted or any volume checked;
\* so it wins over a volume-exceeded reaction that comes earlier in the list.
C6_MissingPreflight ==
    (MissingSet # {}) =>
        /\ pc \in {"plan_preflight", "raised"}
        /\ well_usage = <<>>
        /\ rows = <<>>
        /\ dispense_rows = <<>>
        /\ pc = "plan_preflight" => err = NoError
        /\ pc = "raised" =>
            /\ err.kind = "missing_parts"
            /\ Range(err.missing) = MissingSet
            /\ Len(err.missing) = Cardinality(MissingSet)
            /\ \A a, b \in 1..Len(err.missing) :
                   a < b => NameLess(err.missing[a], err.missing[b])

\* both names are missing, met as S then R, after an over-volume reaction
C6_Witness ==
    /\ pc = "raised"
    /\ err.missing = <<"R", "S">>
    /\ Len(reactions) = 2
    /\ PartsExceed(1)
    /\ ~PartsExceed(2)
    /\ reactions[1].parts[1] = "S"

NoSharedWells ==
    /\ \A r \in DOMAIN reagent_to_wells :
           \A i, j \in 1..Len(reagent_to_wells[r]) :
               i # j => reagent_to_wells[r][i] # reagent_to_wells[r][j]
    /\ \A r, q \in DOMAIN reagent_to_wells :
           r # q => Range(reagent_to_wells[r]) \cap Range(reagent_to_wells[q]) = {}

Balanced ==
    \A r \in DOMAIN reagent_to_wells :
        \A i, j \in 1..Len(reagent_to_wells[r]) :
            i < j =>
                /\ Usage(well_usage, reagent_to_wells[r][i]) >= Usage(well_usage, reagent_to_wells[r][j])
                /\ Usage(well_usage, reagent_to_wells[r][i]) - Usage(well_usage, reagent_to_wells[r][j]) <= 1

NeverDecreases ==
    \A w \in SourceWells \cup DOMAIN well_usage : Usage(well_usage', w) >= Usage(well_usage, w)

\* C9: when no source well is declared for more than one reagent and no
\* reagent lists a well twice, in every state of a planning pass the usage
\* counts of two wells of one reagent differ by at most 1, an earlier-declared
\* well never has a smaller count than a later-declared one, and no usage
\* count ever decreases.
C9_Balance ==
    /\ [](NoSharedWells => Balanced)
    /\ [][NoSharedWells => NeverDecreases]_vars

C9_Witness ==
    /\ NoSharedWells
    /\ "R" \in DOMAIN reagent_to_wells
    /\ Len(reagent_to_wells["R"]) = 3
    /\ Usage(well_usage, A1) = 2
    /\ Usage(well_usage, A2) = 1
    /\ Usage(well_usage, A3) = 1
    /\ "S" \in DOMAIN reagent_to_wells
    /\ Usage(well_usage, B1) = 1
    /\ Usage(well_usage, B2) = 1
-----------------------------------------------------------------------------
(* Cell parsing helper and the readers of the manual sheets *)

\* A cell is None or holds a value; text is str(value).  The first cell of a
\* manual row (the head of a manual column) holds a well, the others a part.
NoneCell(text) == [none |-> TRUE, text |-> text]
Cell(text) == [none |-> FALSE, text |-> text]

\* _cell_to_str on a cell that holds a well
cell_to_str(val) == IF val.none THEN <<>> ELSE Strip(val.text)

\* str.strip() on the part texts of the model
StrippedName == (" " :> "") @@ (" R" :> "R") @@ ("S " :> "S")

StripName(text) == IF text \in DOMAIN StrippedName THEN StrippedName[text] ELSE text

\* _cell_to_str on a cell that holds a part
cell_to_name(val) == IF val.none THEN "" ELSE StripName(val.text)

\* [_cell_to_str(v) for v in vals[1:] if _cell_to_str(v)], cells from index i on
RECURSIVE PartsOf(_, _)
PartsOf(cells, i) ==
    IF i > Len(cells) THEN <<>>
    ELSE IF cell_to_name(cells[i]) # ""
         THEN <<cell_to_name(cells[i])>> \o PartsOf(cells, i + 1)
         ELSE PartsOf(cells, i + 1)

\* the loop of read_manual_rows over the rows of the sheet, from index i on
RECURSIVE ReadRowsFrom(_, _)
ReadRowsFrom(sh, i) ==
    IF i > Len(sh) THEN <<>>
    ELSE LET target == Upper(cell_to_str(sh[i].head))
             parts == PartsOf(sh[i].cells, 1)
         IN  IF target = <<>> THEN ReadRowsFrom(sh, i + 1)
             ELSE IF parts # <<>>
                  THEN <<Reaction(target, parts)>> \o ReadRowsFrom(sh, i + 1)
                  ELSE ReadRowsFrom(sh, i + 1)

read_manual_rows(sh) == ReadRowsFrom(sh, 1)

\* the loop of read_manual_columns over the header cells, from index i on
RECURSIVE ReadColumnsFrom(_, _)
ReadColumnsFrom(sh, i) ==
    IF i > Len(sh) THEN <<>>
    ELSE LET well == Upper(cell_to_str(sh[i].head))
             parts == PartsOf(sh[i].cells, 1)
         IN  IF well = <<>> THEN ReadColumnsFrom(sh, i + 1)
             ELSE IF parts # <<>>
                  THEN <<Reaction(well, parts)>> \o ReadColumnsFrom(sh, i + 1)
                  ELSE ReadColumnsFrom(sh, i + 1)

read_manual_columns(sh) == ReadColumnsFrom(sh, 1)

\* reactions on a target well already seen are dropped
build_manual_reactions_Dedup(mrows) ==
    IF mrows = <<>>
    THEN [err |-> [NoError EXCEPT !.kind = "no_reactions"], reactions |-> <<>>]
    ELSE [err |-> NoError,
          reactions |-> SelectSeq(mrows, LAMBDA r :
              r = mrows[CHOOSE i \in 1..Len(mrows) :
                          /\ mrows[i].target = r.target
                          /\ \A k \in 1..(i - 1) : mrows[k].target # r.target])]

build_manual_reactions(mrows) ==
    IF mrows = <<>>
    THEN [err |-> [NoError EXCEPT !.kind = "no_reactions"], reactions |-> <<>>]
    ELSE [err |-> NoError, reactions |-> mrows]

-----------------------------------------------------------------------------
(* Manual expansion of a sheet: a reader, then build_manual_reactions *)

Z1 == <<"Z", "1">>

HeadCells == {NoneCell(<<>>), Cell(<<" ">>), Cell(<<"a", "1", " ">>), Cell(<<"B", "1">>)}

PartCellRows ==
    { <<>>,
      <<Cell(" "), NoneCell("")>>,
      <<Cell("S "), Cell(" R")>>,
      <<NoneCell(""), Cell("S"), Cell(" "), Cell("S")>> }

Entry(head, cells) == [head |-> head, cells |-> cells]

SheetEntries == {Entry(h, c) : h \in HeadCells, c \in PartCellRows}

ManualSheets == SeqsUpTo(SheetEntries, 0, MaxManualRows)

InitManual ==
    /\ pc = "read_manual"
    /\ mode \in {"manual_rows", "manual_columns"}
    /\ sheet \in ManualSheets
    /\ manual_rows = <<>>
    /\ reactions = <<>>
    /\ err = NoError
    /\ sheetnames = {}
    /\ idot_written = FALSE
    /\ summary_written = FALSE
    /\ outcome = "running"
    /\ BlankWells /\ BlankCombinatorial /\ BlankSettings /\ BlankPlan

ReadManualRows ==
    /\ pc = "read_manual"
    /\ mode = "manual_rows"
    /\ manual_rows' = read_manual_rows(sheet)
    /\ pc' = "build_manual"
    /\ UNCHANGED <<count, wells, common_parts, groups, sheet, reactions,
                   reagent_to_wells, total_vol, dispense_vol, mm_well, mm_name,
                   well_usage, rows, ri, pj, dispense_rows, err, sheetnames, mode,
                   idot_written, summary_written, outcome>>

ReadManualColumns ==
    /\ pc = "read_manual"
    /\ mode = "manual_columns"
    /\ manual_rows' = read_manual_columns(sheet)
    /\ pc' = "build_manual"
    /\ UNCHANGED <<count, wells, common_parts, groups, sheet, reactions,
                   reagent_to_wells, total_vol, dispense_vol, mm_well, mm_name,
                   well_usage, rows, ri, pj, dispense_rows, err, sheetnames, mode,
                   idot_written, summary_written, outcome>>

CallBuildManual ==
    /\ pc = "build_manual"
    /\ LET r == build_manual_reactions(manual_rows)
       IN  /\ reactions' = r.reactions
           /\ err' = r.err
           /\ pc' = IF r.err.kind = "none" THEN "returned" ELSE "raised"
    /\ UNCHANGED <<count, wells, common_parts, groups, sheet, manual_rows,
                   reagent_to_wells, total_vol, dispense_vol, mm_well, mm_name,
                   well_usage, rows, ri, pj, dispense_rows, sheetnames, mode,
                   idot_written, summary_written, outcome>>

NextManual == ReadManualRows \/ ReadManualColumns \/ CallBuildManual

SpecManual == InitManual /\ [][NextManual]_vars

-----------------------------------------------------------------------------
(* Claims about the manual expansion *)

IsBlankHead(c) == c.none \/ \A i \in 1..Len(c.text) : c.text[i] = " "
IsBlankPart(c) == c.none \/ c.text \in {"", " "}

\* a row of the sheet that names a target well and no part
HasEmptyReaction ==
    \E i \in 1..Len(sheet) :
        /\ ~IsBlankHead(sheet[i].head)
        /\ \A k \in 1..Len(sheet[i].cells) : IsBlankPart(sheet[i].cells[k])

ManualEnded == pc \in {"returned", "raised"}

\* C8 as stated: the manual expansion fails with a validation error when the
\* list of reactions is empty or when a reaction's part list is empty.
C8_Original ==
    (ManualEnded /\ (Len(sheet) = 0 \/ HasEmptyReaction)) =>
        (pc = "raised" /\ err.kind = "no_reactions")

\* the rows of the sheet that name a target well and at least one part
KeptRows ==
    SelectSeq(sheet, LAMBDA e :
        /\ ~IsBlankHead(e.head)
        /\ \E k \in 1..Len(e.cells) : ~IsBlankPart(e.cells[k]))

\* C8 amended: build_manual_reactions fails with a validation error exactly
\* when the list it is given is empty; otherwise it returns the list
\* unchanged: same length, same order, same part lists, reactions that share a
\* target well all retained.  A reaction with an empty part list is not
\* rejected: the readers drop such a row, so the list holds one reaction per
\* sheet row that names a target well and at least one part, in sheet order,
\* and no reaction of it has an empty part list.
C8_ManualExpansion ==
    ManualEnded =>
        /\ Len(manual_rows) = Len(KeptRows)
        /\ \A i \in 1..Len(manual_rows) :
            /\ manual_rows[i].parts # <<>>
            /\ manual_rows[i].target = Upper(Strip(KeptRows[i].head.text))
            /\ Len(manual_rows[i].parts) =
                   Cardinality({k \in 1..Len(KeptRows[i].cells) : ~IsBlankPart(KeptRows[i].cells[k])})
        /\ IF manual_rows = <<>>
           THEN pc = "raised" /\ err.kind = "no_reactions" /\ reactions = <<>>
           ELSE pc = "returned" /\ err = NoError /\ reactions = manual_rows

\* two reactions on one target well are both kept; the row without parts
\* between them is dropped without an error
C8_Witness ==
    /\ pc = "returned"
    /\ Len(sheet) = 3
    /\ HasEmptyReaction
    /\ Len(reactions) = 2
    /\ reactions[1].target = reactions[2].target
    /\ reactions[1].parts = <<"S", "R">>
    /\ reactions[2].parts = <<"S", "S">>
-----------------------------------------------------------------------------
(* main: one run of the program on a workbook *)

RequiredSheets == {"Settings", "Source Plate"}
ModeSheets == {"Combinatorial", "Manual Columns", "Manual Rows", "Manual"}

\* wb.sheetnames of the workbooks of the model
Workbooks ==
    {RequiredSheets \cup opt : opt \in SUBSET ModeSheets}
        \cup {{"Settings", "Combinatorial"}, {"Source Plate", "Manual"}, {}}

\* settings["Mode"] after strip().lower(); the key is absent in no workbook
Modes == {"combinatorial", "manual_columns", "manual_rows", "plate"}

\* (total_vol, dispense_vol) in ticks: the defaults (10, 0.5) and (0.5, 0.5) uL
MainVolumes == {<<500000, 25000>>, <<25000, 25000>>}

AX == <<"A", "X">>

MainMmWells == {A1, AX}

MainReagentMaps ==
    { ("R" :> <<A1, A2>>) @@ ("S" :> <<B1>>),
      ("R" :> <<A2>>) @@ ("S" :> <<Z1, B1>>),
      ("R" :> <<A1>>) }

\* what read_combinatorial returns for the Combinatorial sheets of the model
MainCombinatorial ==
    { [common |-> <<>>, groups |-> <<>>],
      [common |-> <<"S">>, groups |-> << <<"R", "S">> >>],
      [common |-> <<>>, groups |-> << <<"R">>, <<"R", "S">> >>],
      [common |-> <<>>, groups |-> [g \in 1..7 |-> <<"R", "S">>]] }

MainEntries ==
    { Entry(Cell(<<"a", "1">>), <<Cell("R")>>),
      Entry(Cell(B1), <<Cell("R"), Cell("S ")>>),
      Entry(Cell(Z1), <<Cell("S")>>),
      Entry(Cell(B1), <<NoneCell("")>>) }

MainSheets == SeqsUpTo(MainEntries, 0, 2)

ExitError(kind) == [NoError EXCEPT !.kind = kind]

InitMain ==
    /\ pc = "main"
    /\ reactions = <<>>
    /\ err = NoError
    /\ BlankWells /\ BlankCombinatorial /\ BlankManual /\ BlankSettings
    /\ BlankPlan /\ BlankRun

\* lines 329-342: load the workbook, check the required sheets, read the
\* settings and the source plate
LoadWorkbook ==
    /\ pc = "main"
    /\ \E names \in Workbooks :
        /\ sheetnames' = names
        /\ IF ~(RequiredSheets \subseteq names)
           THEN /\ outcome' = "exit_error"
                /\ err' = ExitError("missing_required_sheet")
                /\ pc' = "exited"
                /\ UNCHANGED <<mode, total_vol, dispense_vol, mm_well, mm_name,
                               reagent_to_wells>>
           ELSE /\ mode' \in Modes
                /\ \E v \in MainVolumes : total_vol' = v[1] /\ dispense_vol' = v[2]
                /\ mm_well' \in MainMmWells
                /\ mm_name' = "Mastermix"
                /\ reagent_to_wells' \in MainReagentMaps
                /\ pc' = "dispatch"
                /\ UNCHANGED <<outcome, err>>
    /\ UNCHANGED <<count, wells, common_parts, groups, sheet, manual_rows, reactions,
                   well_usage, rows, ri, pj, dispense_rows, idot_written,
                   summary_written>>

\* what the three branches leave alone
DispatchFrame ==
    UNCHANGED <<count, wells, reagent_to_wells, total_vol, dispense_vol, mm_well,
                mm_name, well_usage, rows, ri, pj, dispense_rows, sheetnames, mode,
                idot_written, summary_written>>

\* sys.exit(message) inside the try block
DispatchExit(kind) ==
    /\ outcome' = "exit_error"
    /\ err' = ExitError(kind)
    /\ pc' = "exited"
    /\ UNCHANGED <<common_parts, groups, sheet, manual_rows, reactions>>

\* an exception that "except ValueError" does not catch
DispatchTraceback(kind) ==
    /\ outcome' = "traceback"
    /\ err' = ExitError(kind)
    /\ pc' = "exited"
    /\ UNCHANGED <<common_parts, groups, sheet, manual_rows, reactions>>

\* the reactions are built, or the builder raised ValueError
Built(r) ==
    /\ reactions' = r.reactions
    /\ err' = r.err
    /\ pc' = IF r.err.kind = "none" THEN "plan_preflight" ELSE "raised"
    /\ UNCHANGED outcome

\* lines 345-349
DispatchCombinatorial ==
    /\ pc = "dispatch"
    /\ mode = "combinatorial"
    /\ IF "Combinatorial" \notin sheetnames
       THEN DispatchExit("missing_mode_sheet")
       ELSE \E c \in MainCombinatorial :
                /\ common_parts' = c.common
                /\ groups' = c.groups
                /\ Built(build_combinatorial_reactions(c.common, c.groups))
                /\ UNCHANGED <<sheet, manual_rows>>
    /\ DispatchFrame

\* lines 350-353
DispatchManualColumns ==
    /\ pc = "dispatch"
    /\ mode = "manual_columns"
    /\ IF "Manual Columns" \notin sheetnames
       THEN DispatchExit("missing_mode_sheet")
       ELSE \E sh \in MainSheets :
                /\ sheet' = sh
                /\ manual_rows' = read_manual_columns(sh)
                /\ Built(build_manual_reactions(read_manual_columns(sh)))
                /\ UNCHANGED <<common_parts, groups>>
    /\ DispatchFrame

\* the sheet whose presence the manual_rows branch tests (line 355) and the
\* sheet it reads (line 357)
ManualRowsTested == "Manual"
ManualRowsRead == "Manual Rows"

\* lines 354-357
DispatchManualRows ==
    /\ pc = "dispatch"
    /\ mode = "manual_rows"
    /\ IF ManualRowsTested \notin sheetnames
       THEN DispatchExit("missing_mode_sheet")
       ELSE IF ManualRowsRead \notin sheetnames
            THEN DispatchTraceback("KeyError")
            ELSE \E sh \in MainSheets :
                     /\ sheet' = sh
                     /\ manual_rows' = read_manual_rows(sh)
                     /\ Built(build_manual_reactions(read_manual_rows(sh)))
                     /\ UNCHANGED <<common_parts, groups>>
    /\ DispatchFrame

\* lines 358-359
DispatchUnknown ==
    /\ pc = "dispatch"
    /\ mode \notin {"combinatorial", "manual_columns", "manual_rows"}
    /\ DispatchExit("unknown_mode")
    /\ DispatchFrame

\* lines 366-367: except ValueError as e: sys.exit(f"Error: {e}")
HandleValueError ==
    /\ pc = "raised"
    /\ outcome' = "exit_error"
    /\ pc' = "exited"
    /\ UNCHANGED <<count, wells, common_parts, groups, sheet, manual_rows, reactions,
                   reagent_to_wells, total_vol, dispense_vol, mm_well, mm_name,
                   well_usage, rows, ri, pj, dispense_rows, err, sheetnames, mode,
                   idot_written, summary_written>>

\* lines 369-381: write_idot_csv writes the header and one row per record
WriteIdotCsv ==
    /\ pc = "plan_returned"
    /\ idot_written' = TRUE
    /\ pc' = "print_summary"
    /\ UNCHANGED <<count, wells, common_parts, groups, sheet, manual_rows, reactions,
                   reagent_to_wells, total_vol, dispense_vol, mm_well, mm_name,
                   well_usage, rows, ri, pj, dispense_rows, err, sheetnames, mode,
                   summary_written, outcome>>

\* the keys of vol_per_source in insertion order: the source wells of the
\* records, each at its first occurrence
RECURSIVE SourcesInOrder(_, _)
SourcesInOrder(recs, i) ==
    IF i > Len(recs) THEN <<>>
    ELSE IF \E k \in 1..(i - 1) : recs[k].src = recs[i].src
         THEN SourcesInOrder(recs, i + 1)
         ELSE <<recs[i].src>> \o SourcesInOrder(recs, i + 1)

\* sorted(ws, key=well_sort_key): the exception of the first key that raises
RECURSIVE SortRaises(_, _)
SortRaises(ws, i) ==
    IF i > Len(ws) THEN "none"
    ELSE IF well_sort_key(ws[i]).raised # "none" THEN well_sort_key(ws[i]).raised
         ELSE SortRaises(ws, i + 1)

\* print_summary: the exception it raises before it opens the summary file
SummaryRaises(rs, recs) ==
    LET targets == [i \in 1..Len(rs) |-> rs[i].target]
    IN  IF SortRaises(targets, 1) # "none" THEN SortRaises(targets, 1)
        ELSE SortRaises(SourcesInOrder(recs, 1), 1)

\* lines 382-383 and 263-307: print_summary sorts the target wells (line 273)
\* and the source wells (line 285), then writes the summary file
PrintSummary ==
    /\ pc = "print_summary"
    /\ IF SummaryRaises(reactions, dispense_rows) # "none"
       THEN /\ outcome' = "traceback"
            /\ err' = ExitError(SummaryRaises(reactions, dispense_rows))
            /\ pc' = "exited"
            /\ UNCHANGED summary_written
       ELSE /\ summary_written' = TRUE
            /\ outcome' = "completed"
            /\ pc' = "exited"
            /\ UNCHANGED err
    /\ UNCHANGED <<count, wells, common_parts, groups, sheet, manual_rows, reactions,
                   reagent_to_wells, total_vol, dispense_vol, mm_well, mm_name,
                   well_usage, rows, ri, pj, dispense_rows, sheetnames, mode,
                   idot_written>>

NextMain ==
    \/ LoadWorkbook
    \/ DispatchCombinatorial
    \/ DispatchManualColumns
    \/ DispatchManualRows
    \/ DispatchUnknown
    \/ PlanPreflight
    \/ PlanReaction
    \/ PlanPick
    \/ PlanFiller
    \/ PlanReturn
    \/ HandleValueError
    \/ WriteIdotCsv
    \/ PrintSummary

SpecMain == InitMain /\ [][NextMain]_vars

-----------------------------------------------------------------------------
(* Claims about main *)

RunEnded == outcome # "running"

\* C7: every run either writes both output files and completes, or fails with
\* no output file written; no end state has the dispenser CSV written and the
\* run failed or the summary missing.
C7_Atomic ==
    RunEnded =>
        \/ outcome = "completed" /\ idot_written /\ summary_written
        \/ outcome # "completed" /\ ~idot_written /\ ~summary_written

\* the sheet each mode reads its reactions from
SheetOfMode(m) ==
    CASE m = "combinatorial" -> "Combinatorial"
      [] m = "manual_columns" -> "Manual Columns"
      [] m = "manual_rows" -> "Manual Rows"
      [] OTHER -> ""

\* C10: past the dispatch of a workbook that has the Settings and Source Plate
\* sheets, the run has exited with the missing-sheet error of its mode if and
\* only if the sheet the mode reads its reactions from is absent, a mode other
\* than the three exits with the unknown-mode error, and the dispatch never
\* ends in an unhandled failure.
C10_Dispatch ==
    (pc \notin {"main", "dispatch"} /\ RequiredSheets \subseteq sheetnames) =>
        /\ (mode \in {"combinatorial", "manual_columns", "manual_rows"}) =>
               (err.kind = "missing_mode_sheet" <=> SheetOfMode(mode) \notin sheetnames)
        /\ (mode \notin {"combinatorial", "manual_columns", "manual_rows"}) =>
               (err.kind = "unknown_mode" /\ outcome = "exit_error")
        /\ err.kind # "KeyError"
====
